---- MODULE Spec2Model ----
(***************************************************************************)
(* A model of the SQON parser's top-level driver (src/lib/parser.ts):      *)
(* construction, parse() with the parseLines directive loop,               *)
(* checkSectionOrder, the three delegations to the section sub-parsers,    *)
(* and the record renumbering utility redoc().                             *)
(*                                                                         *)
(* A line of text is a record [indent, text, ord]:                         *)
(*   indent  whether the line starts with whitespace,                      *)
(*   text    the line's trimmed content; "#" stands for a record line      *)
(*           "#<ord> {...}", "#abc" for a line that starts with '#' but    *)
(*           has no digits after it, "entry" for a well-formed body line   *)
(*           (a field declaration or a rule), "bad" for a malformed one,   *)
(*   ord     the digits of a record line's ordinal marker (0 otherwise).   *)
(* A text is the sequence of its lines (what split('\n') returns), so the  *)
(* empty string is the text of one empty line; <<>> stands for undefined.  *)
(***************************************************************************)
EXTENDS Integers, Sequences, FiniteSets, TLC

\* ---------------------------------------------------------------- bounds
MaxLen == 3        \* longest exhaustively enumerated parse input (lines)
MaxBody == 2       \* most body lines per section of a well-formed input
MaxOver == 2       \* how far the long inputs go beyond a cap
MaxParses == 2     \* parse() calls per instance
MaxOrd == 2        \* largest ordinal marker in a renumbering input
MaxRedocLen == 4   \* longest renumbering input (lines)

\* ------------------------------------------------------- program constants
MAX_ERRORS == 50
MAX_RECORDS == 500

VARIABLES
    filePath,      \* this.filePath: "" when not supplied
    fileContent,   \* this.fileContent: a text, <<>> when not supplied
    section,       \* this.section: "none" when not supplied
    file,          \* the text stored at filePath (<<>>: no such file)
    lines,         \* this.lines
    position,      \* this.position (0-based)
    parsedSchema,  \* this.parsedSchema: the set of declared fields
    validations,   \* this.validations: the set of fields carrying rules
    records,       \* this.records: the documents' ordinals, in order
    errors,        \* this.errors
    sectionOrder,  \* this.sectionOrder
    fileRules,     \* this.fileRules
    results,       \* the `results` local of the last delegation
    result,        \* what the last parse() call returned
    pc,            \* "ctorFailed" | "ready" | "scanning" | "returned" | "thrown"
    parseCalls,    \* number of parse() calls started on the instance
    opened,        \* history: the sections delegated to so far
    redocArg,      \* the `content` argument of the redoc() call
    redocPc,       \* "idle" | "called" | "done" | "thrown"
    redocRet,      \* the text redoc() returned (<<>>: it returned nothing)
    fileReads,     \* number of readFile calls made
    fileWrites,    \* number of writeFile calls made
    instance,      \* which SQON instance the fields belong to (1 or 2)
    firstResult,   \* what the first instance's parse() returned
    firstRedoc     \* the argument and the return value of an earlier redoc(content) call

parseVars == <<lines, position, parsedSchema, validations, records, errors,
               sectionOrder, fileRules, results, result, pc, parseCalls, opened>>
redocVars == <<redocArg, redocPc, redocRet, fileReads, fileWrites>>
requestVars == <<instance, firstResult, firstRedoc>>
vars == <<filePath, fileContent, section, file, parseVars, redocVars, requestVars>>

\* ------------------------------------------------------------------ lines
Line(t) == [indent |-> FALSE, text |-> t, ord |-> 0]
Marker(n) == [indent |-> FALSE, text |-> "#", ord |-> n]
Indented(l) == [l EXCEPT !.indent = TRUE]

\* String.prototype.trim
Trim(l) == [l EXCEPT !.indent = FALSE]

EmptyString == <<Line("")>>
NoText == <<>>
NoPath == ""

\* JavaScript truthiness of an optional string
TruthyText(t) == t # NoText /\ t # EmptyString
TruthyPath(p) == p # NoPath

Min(a, b) == IF a < b THEN a ELSE b
Max(a, b) == IF a < b THEN b ELSE a
Rep(l, n) == [i \in 1..n |-> l]

\* .map(line => line.trim()).filter(line => line.length > 0)
TrimFilter(t) == SelectSeq([i \in 1..Len(t) |-> Trim(t[i])], LAMBDA l : l.text # "")

StrictTexts == {"*STRICT=TRUE", "*STRICT=FALSE", "*STRICT=MAYBE", "*STRICT=true"}

\* line.startsWith('*STRICT=')
StartsWithStrict(l) == l.text \in StrictTexts

\* line.split('=')[1]?.trim().toUpperCase()
StrictValue(l) ==
    CASE l.text = "*STRICT=TRUE" -> "TRUE"
      [] l.text = "*STRICT=true" -> "TRUE"
      [] l.text = "*STRICT=FALSE" -> "FALSE"
      [] OTHER -> "MAYBE"

null == 0
Error(ln, msg) == [line |-> ln, message |-> msg]


\* -------------------------------------------------- section sub-parsers
\* The 0-based index of the section terminator at or after `pos`
\* (the number of lines when the section is not terminated).
TerminatorIndex(ls, pos) ==
    IF \E i \in pos..(Len(ls) - 1) : ls[i + 1].text = "@end"
    THEN CHOOSE i \in pos..(Len(ls) - 1) :
            /\ ls[i + 1].text = "@end"
            /\ \A j \in pos..(i - 1) : ls[j + 1].text # "@end"
    ELSE Len(ls)

\* The 0-based indices of the body lines of the section starting at `pos`.
BodyIndices(ls, pos) ==
    LET t == TerminatorIndex(ls, pos)
    IN  [k \in 1..Max(t - pos, 0) |-> pos + k - 1]

\* The cursor a sub-parser returns: just past the terminator.
PastTerminator(ls, pos) == Min(TerminatorIndex(ls, pos) + 1, Max(Len(ls), pos))

ErrorsAt(idx, msg) == [k \in 1..Len(idx) |-> Error(idx[k] + 1, msg)]

\* new SQONSchema({lines, position, allowedTypes}).parseSchema()
SQONSchema(ls, pos) ==
    LET body == BodyIndices(ls, pos)
        good == SelectSeq(body, LAMBDA i : ls[i + 1].text = "entry")
        bad == SelectSeq(body, LAMBDA i : ls[i + 1].text # "entry")
    IN  [parser |-> "schema",
         parsedSchema |-> {good[k] + 1 : k \in 1..Len(good)},
         validations |-> {},
         records |-> <<>>,
         errors |-> ErrorsAt(bad, "schema: invalid declaration"),
         lines |-> ls,
         position |-> PastTerminator(ls, pos)]

\* new SQONValidation({lines, position, parsedSchema, validationKeywords}).parseValidation()
SQONValidation(ls, pos, schema) ==
    LET body == BodyIndices(ls, pos)
        ok(i) == ls[i + 1].text = "entry" /\ schema # {}
        good == SelectSeq(body, ok)
        bad == SelectSeq(body, LAMBDA i : ~ok(i))
    IN  [parser |-> "validations",
         parsedSchema |-> {},
         validations |-> {good[k] + 1 : k \in 1..Len(good)},
         records |-> <<>>,
         errors |-> ErrorsAt(bad, "validations: invalid rule"),
         lines |-> ls,
         position |-> PastTerminator(ls, pos)]

\* new SQONRecords(lines, position).parseRecords(maxRecords)
SQONRecords(ls, pos, maxRecords) ==
    LET body == BodyIndices(ls, pos)
        docs == SelectSeq(body, LAMBDA i : ls[i + 1].text = "#")
        kept == SubSeq(docs, 1, Min(Len(docs), maxRecords))
        \* the first document beyond the cap, where the truncation is reported
        over == IF Len(docs) > maxRecords THEN docs[maxRecords + 1] ELSE -1
        noted == SelectSeq(body, LAMBDA i : ls[i + 1].text # "#" \/ i = over)
    IN  [parser |-> "records",
         parsedSchema |-> {},
         validations |-> {},
         records |-> [k \in 1..Len(kept) |-> ls[kept[k] + 1].ord],
         errors |-> [k \in 1..Len(noted) |->
                        IF noted[k] = over
                        THEN Error(over + 1, "records: truncated at the maximum record count")
                        ELSE Error(noted[k] + 1, "records: invalid record")],
         lines |-> ls,
         position |-> PastTerminator(ls, pos)]

NoResults ==
    [parser |-> "none", parsedSchema |-> {}, validations |-> {}, records |-> <<>>,
     errors |-> <<>>, lines |-> <<>>, position |-> 0]

SubParserMessages ==
    {"schema: invalid declaration", "validations: invalid rule",
     "records: invalid record", "records: truncated at the maximum record count"}

\* ------------------------------------------------------------ orchestrator
\* Array.prototype.includes
Includes(order, s) == \E i \in 1..Len(order) : order[i] = s

\* mutant of SliceErrors: the slice keeps one error too many
SliceErrorsOffByOne(errs) == SubSeq(errs, 1, Min(Len(errs), MAX_ERRORS + 1))

\* results.errors.slice(0, this.MAX_ERRORS)
SliceErrors(errs) == SubSeq(errs, 1, Min(Len(errs), MAX_ERRORS))

\* mutant of checkSectionOrder: an ordering violation returns before the push
checkSectionOrderReturnsEarly(sec, order, errs, pos) ==
    IF sec # "@schema" /\ ~Includes(order, "@schema")
    THEN [errors |-> Append(errs, Error(pos + 1, "must come after '@schema'")),
          sectionOrder |-> order]
    ELSE [errors |-> IF Includes(order, sec)
                     THEN Append(errs, Error(pos + 1, "is already opened but not closed"))
                     ELSE errs,
          sectionOrder |-> Append(order, sec)]

\* checkSectionOrder(section), at cursor `pos`: the errors list and the
\* section-order stack it leaves.
checkSectionOrder(sec, order, errs, pos) ==
    LET after == "must come after '@schema'"
        dup == "is already opened but not closed"
        e1 == IF sec # "@schema" /\ ~Includes(order, "@schema")
              THEN <<Error(pos + 1, after)>> ELSE <<>>
        e2 == IF sec = "@records"
                 /\ Includes(order, "@validations") /\ ~Includes(order, "@validations")
              THEN <<Error(pos + 1, "must come after '@validations'")>> ELSE <<>>
        e3 == IF Includes(order, sec) THEN <<Error(pos + 1, dup)>> ELSE <<>>
    IN  [errors |-> errs \o e1 \o e2 \o e3, sectionOrder |-> Append(order, sec)]

\* parseSchema(): what it leaves in results, parsedSchema, errors, lines, position
parseSchema(ls, pos, errs) ==
    LET r == SQONSchema(ls, pos)
    IN  [results |-> r, value |-> r.parsedSchema,
         errors |-> errs \o SliceErrors(r.errors), lines |-> r.lines, position |-> r.position]

\* parseValidation()
parseValidation(ls, pos, errs, schema) ==
    LET r == SQONValidation(ls, pos, schema)
    IN  [results |-> r, value |-> r.validations,
         errors |-> errs \o SliceErrors(r.errors), lines |-> r.lines, position |-> r.position]

\* parseRecords(); this.lines is not reassigned
parseRecords(ls, pos, errs) ==
    LET r == SQONRecords(ls, pos, MAX_RECORDS)
    IN  [results |-> r, value |-> r.records,
         errors |-> errs \o SliceErrors(r.errors), lines |-> ls, position |-> r.position]

\* mutant of StrictUpdate: every value but TRUE switches strict mode off
StrictUpdateResets(v, strict) == v = "TRUE"

\* the new value of fileRules.Strict after a *STRICT= line with value v
StrictUpdate(v, strict) ==
    IF v = "TRUE" THEN TRUE ELSE IF v = "FALSE" THEN FALSE ELSE strict

\* the error a *STRICT= line with value v appends
StrictErrors(v, pos) ==
    IF v \notin {"TRUE", "FALSE"}
    THEN <<Error(pos + 1, "Invalid *STRICT value")>> ELSE <<>>

\* mutant of ConfigRejected: both sources supplied is rejected too
ConfigRejectedUnlessOne(fp, fc) == TruthyPath(fp) = TruthyText(fc)

\* constructor: the configuration is rejected
ConfigRejected(fp, fc) == ~TruthyPath(fp) /\ ~TruthyText(fc)

\* `!this.parsedSchema`: an object, even an empty one, is never falsy
SchemaIsFalsy(schema) == FALSE

EmptyResult == [schema |-> {}, validations |-> {}, records |-> <<>>]

\* The object parse() returned. Its errors and fileRules are the instance's
\* own array and object, so later pushes and assignments show through it.
Returned ==
    [fileRules |-> fileRules, schema |-> result.schema, validations |-> result.validations,
     records |-> result.records, errors |-> errors]


\* ------------------------------------------------------------------ inputs
ParseAlphabet ==
    {Line(""), Line("*STRICT=TRUE"), Line("*STRICT=FALSE"), Line("*STRICT=MAYBE"),
     Line("@schema"), Line("@validations"), Line("@records"), Line("@end"),
     Indented(Line("@end")), Line("entry"), Marker(1)}

ShortTexts == UNION {[1..n -> ParseAlphabet] : n \in 1..MaxLen}

StrictPrefix(s) == IF s = "" THEN <<>> ELSE <<Line(s)>>

WellFormedText(s, nf, nv, nr) ==
    StrictPrefix(s)
    \o <<Line("@schema")>> \o Rep(Line("entry"), nf) \o <<Line("@end")>>
    \o <<Line("@validations")>> \o Rep(Line("entry"), nv) \o <<Line("@end")>>
    \o <<Line("@records")>> \o [i \in 1..nr |-> Marker(i - 1)] \o <<Line("@end")>>

\* optional *STRICT line, then @schema...@end, @validations...@end and
\* @records...@end with at least one record, every body line well formed
WellFormedTexts ==
    {WellFormedText(s, nf, nv, nr) :
        s \in {"", "*STRICT=TRUE", "*STRICT=FALSE", "*STRICT=true"},
        nf \in 1..MaxBody, nv \in 0..MaxBody, nr \in 1..MaxBody}

\* one section holding about MAX_ERRORS malformed lines
ErrorCapTexts ==
    {<<Line(d)>> \o Rep(Line("bad"), n) \o <<Line("@end")>> :
        d \in {"@schema", "@validations", "@records"},
        n \in (MAX_ERRORS - 1)..(MAX_ERRORS + MaxOver)}

\* a records section holding about MAX_RECORDS documents after b malformed lines
RecordCapTexts ==
    {<<Line("@records")>> \o Rep(Line("bad"), b) \o [i \in 1..n |-> Marker(i - 1)]
        \o <<Line("@end")>> :
        b \in {0, MAX_ERRORS - 1, MAX_ERRORS},
        n \in (MAX_RECORDS - 1)..(MAX_RECORDS + MaxOver)}

\* a closed section followed by a short tail of arbitrary lines
AfterSectionTexts ==
    {<<Line(d), Line("entry"), Line("@end")>> \o t :
        d \in {"@schema", "@validations", "@records"},
        t \in UNION {[1..n -> ParseAlphabet] : n \in 1..(MaxLen - 1)}}

\* an empty section, the line after its terminator, and k further @end lines
Block(d, k) == <<Line(d), Line("@end"), Line("entry")>> \o Rep(Line("@end"), k)

\* three sections in any order, each followed or not by a top-level @end
SectionRunTexts ==
    {Block(a, ka) \o Block(b, kb) \o Block(c, kc) :
        a \in {"@schema", "@validations", "@records"},
        b \in {"@schema", "@validations", "@records"},
        c \in {"@schema", "@validations", "@records"},
        ka \in 0..1, kb \in 0..1, kc \in 0..MaxBody}

ParseTexts ==
    ShortTexts \cup WellFormedTexts \cup AfterSectionTexts \cup SectionRunTexts
        \cup ErrorCapTexts \cup RecordCapTexts

Sections == {"none", "schema", "validations", "records"}

\* ------------------------------------------------------------- constructor
InitFields ==
    /\ lines = <<>>
    /\ position = 0
    /\ parsedSchema = {}
    /\ validations = {}
    /\ records = <<>>
    /\ errors = <<>>
    /\ sectionOrder = <<>>
    /\ fileRules = [Strict |-> FALSE]
    /\ results = NoResults
    /\ result = EmptyResult
    /\ parseCalls = 0
    /\ opened = {}
    /\ instance = 1
    /\ firstResult = EmptyResult
    /\ firstRedoc = [arg |-> NoText, ret |-> NoText]
    /\ pc = IF ConfigRejected(filePath, fileContent) THEN "ctorFailed" ELSE "ready"

RedocIdle ==
    /\ redocArg = NoText
    /\ redocPc = "idle"
    /\ redocRet = NoText
    /\ fileReads = 0
    /\ fileWrites = 0

\* new SQON({filePath, section, fileContent})
Init ==
    /\ section \in Sections
    /\ \/ /\ filePath = NoPath                     \* inline content only
          /\ fileContent \in ParseTexts
          /\ file = NoText
       \/ /\ filePath = "db.sqon"                  \* path only
          /\ fileContent = NoText
          /\ file \in ParseTexts \cup {NoText}
       \/ /\ filePath = "db.sqon"                  \* both
          /\ fileContent \in WellFormedTexts \cup {EmptyString}
          /\ file = <<Line("@records"), Marker(7), Line("@end")>>
       \/ /\ filePath = NoPath                     \* neither
          /\ fileContent \in {NoText, EmptyString}
          /\ file = NoText
    /\ InitFields
    /\ RedocIdle

\* ------------------------------------------------------------------ parse()
\* mutant of parse: every call starts from a clean cursor, error list and stack
parseStartsClean ==
    /\ \/ pc = "ready"
       \/ pc = "returned" /\ parseCalls < MaxParses
    /\ parseCalls' = parseCalls + 1
    /\ IF TruthyText(fileContent)
       THEN /\ lines' = TrimFilter(fileContent)
            /\ pc' = "scanning"
       ELSE IF TruthyPath(filePath)
       THEN IF file = NoText
            THEN /\ pc' = "thrown"                 \* fs.promises.stat rejects
                 /\ lines' = lines
            ELSE /\ lines' = lines \o TrimFilter(file)
                 /\ pc' = "scanning"
       ELSE /\ lines' = lines
            /\ pc' = "scanning"
    /\ position' = 0
    /\ errors' = <<>>
    /\ sectionOrder' = <<>>
    /\ UNCHANGED <<filePath, fileContent, section, file, parsedSchema,
                   validations, records, fileRules, results,
                   result, opened, redocVars, requestVars>>

\* parse() up to its call of parseLines: load this.lines
parse ==
    /\ \/ pc = "ready"
       \/ pc = "returned" /\ parseCalls < MaxParses
    /\ parseCalls' = parseCalls + 1
    /\ IF TruthyText(fileContent)
       THEN /\ lines' = TrimFilter(fileContent)
            /\ pc' = "scanning"
       ELSE IF TruthyPath(filePath)
       THEN IF file = NoText
            THEN /\ pc' = "thrown"                 \* fs.promises.stat rejects
                 /\ lines' = lines
            ELSE /\ lines' = lines \o TrimFilter(file)
                 /\ pc' = "scanning"
       ELSE /\ lines' = lines
            /\ pc' = "scanning"
    /\ UNCHANGED <<filePath, fileContent, section, file, position, parsedSchema,
                   validations, records, errors, sectionOrder, fileRules, results,
                   result, opened, redocVars, requestVars>>

Scanning == pc = "scanning" /\ position < Len(lines)
cur == lines[position + 1]

\* mutant of StrictLine: *STRICT=TRUE is fatal with or without a section focus
StrictLineAlwaysFatal ==
    /\ Scanning
    /\ StartsWithStrict(cur)
    /\ LET v == StrictValue(cur)
       IN  IF v = "TRUE"
           THEN /\ pc' = "thrown"
                /\ UNCHANGED <<fileRules, errors, position>>
           ELSE /\ fileRules' = [fileRules EXCEPT !.Strict = StrictUpdate(v, fileRules.Strict)]
                /\ errors' = errors \o StrictErrors(v, position)
                /\ position' = position + 1
                /\ pc' = pc
    /\ UNCHANGED <<filePath, fileContent, section, file, lines, parsedSchema, validations,
                   records, sectionOrder, results, result, parseCalls, opened, redocVars, requestVars>>

\* parseLines, one iteration: a *STRICT= line
StrictLine ==
    /\ Scanning
    /\ StartsWithStrict(cur)
    /\ LET v == StrictValue(cur)
       IN  IF v = "TRUE" /\ section # "none"
           THEN /\ pc' = "thrown"
                /\ UNCHANGED <<fileRules, errors, position>>
           ELSE /\ fileRules' = [fileRules EXCEPT !.Strict = StrictUpdate(v, fileRules.Strict)]
                /\ errors' = errors \o StrictErrors(v, position)
                /\ position' = position + 1
                /\ pc' = pc
    /\ UNCHANGED <<filePath, fileContent, section, file, lines, parsedSchema, validations,
                   records, sectionOrder, results, result, parseCalls, opened, redocVars, requestVars>>

\* mutant of SchemaDirective: the focused branch delegates and goes on scanning
SchemaDirectiveFallsThrough ==
    /\ Scanning
    /\ ~StartsWithStrict(cur)
    /\ cur.text = "@schema"
    /\ IF section = "schema"
       THEN LET d == parseSchema(lines, position + 1, errors)
            IN  /\ results' = d.results
                /\ parsedSchema' = d.value
                /\ errors' = d.errors
                /\ lines' = d.lines
                /\ position' = d.position + 1
                /\ opened' = opened \cup {"@schema"}
                /\ UNCHANGED <<sectionOrder, result, pc>>
       ELSE IF section = "none"
       THEN LET c == checkSectionOrder("@schema", sectionOrder, errors, position)
                d == parseSchema(lines, position + 1, c.errors)
            IN  /\ sectionOrder' = c.sectionOrder
                /\ results' = d.results
                /\ parsedSchema' = d.value
                /\ errors' = d.errors
                /\ lines' = d.lines
                /\ position' = d.position + 1
                /\ opened' = opened \cup {"@schema"}
                /\ UNCHANGED <<result, pc>>
       ELSE /\ position' = position + 1
            /\ UNCHANGED <<results, parsedSchema, errors, lines, result, pc, opened,
                           sectionOrder>>
    /\ UNCHANGED <<filePath, fileContent, section, file, validations, records, fileRules,
                   parseCalls, redocVars, requestVars>>

\* parseLines, one iteration: an @schema line
SchemaDirective ==
    /\ Scanning
    /\ ~StartsWithStrict(cur)
    /\ cur.text = "@schema"
    /\ IF section = "schema"
       THEN LET d == parseSchema(lines, position + 1, errors)
            IN  /\ results' = d.results
                /\ parsedSchema' = d.value
                /\ errors' = d.errors
                /\ lines' = d.lines
                /\ position' = d.position
                /\ result' = [schema |-> d.value, validations |-> {}, records |-> <<>>]
                /\ pc' = "returned"
                /\ opened' = opened \cup {"@schema"}
                /\ UNCHANGED sectionOrder
       ELSE IF section = "none"
       THEN LET c == checkSectionOrder("@schema", sectionOrder, errors, position)
                d == parseSchema(lines, position + 1, c.errors)
            IN  /\ sectionOrder' = c.sectionOrder
                /\ results' = d.results
                /\ parsedSchema' = d.value
                /\ errors' = d.errors
                /\ lines' = d.lines
                /\ position' = d.position + 1
                /\ opened' = opened \cup {"@schema"}
                /\ UNCHANGED <<result, pc>>
       ELSE /\ position' = position + 1
            /\ UNCHANGED <<results, parsedSchema, errors, lines, result, pc, opened,
                           sectionOrder>>
    /\ UNCHANGED <<filePath, fileContent, section, file, validations, records, fileRules,
                   parseCalls, redocVars, requestVars>>

\* parseLines, one iteration: an @validations line
ValidationsDirective ==
    /\ Scanning
    /\ ~StartsWithStrict(cur)
    /\ cur.text = "@validations"
    /\ IF section = "schema"
       THEN LET d == parseValidation(lines, position + 1, errors, parsedSchema)
            IN  /\ results' = d.results
                /\ validations' = d.value
                /\ errors' = d.errors
                /\ lines' = d.lines
                /\ position' = d.position
                /\ result' = [schema |-> {}, validations |-> d.value, records |-> <<>>]
                /\ pc' = "returned"
                /\ opened' = opened \cup {"@validations"}
                /\ UNCHANGED sectionOrder
       ELSE IF section = "none"
       THEN LET c == checkSectionOrder("@validations", sectionOrder, errors, position)
                d == parseValidation(lines, position + 1, c.errors, parsedSchema)
            IN  /\ sectionOrder' = c.sectionOrder
                /\ results' = d.results
                /\ validations' = d.value
                /\ errors' = d.errors
                /\ lines' = d.lines
                /\ position' = d.position + 1
                /\ opened' = opened \cup {"@validations"}
                /\ UNCHANGED <<result, pc>>
       ELSE /\ position' = position + 1
            /\ UNCHANGED <<results, validations, errors, lines, result, pc, opened,
                           sectionOrder>>
    /\ UNCHANGED <<filePath, fileContent, section, file, parsedSchema, records, fileRules,
                   parseCalls, redocVars, requestVars>>

\* parseLines, one iteration: an @records line
RecordsDirective ==
    /\ Scanning
    /\ ~StartsWithStrict(cur)
    /\ cur.text = "@records"
    /\ IF section = "records"
       THEN LET d == parseRecords(lines, position + 1, errors)
            IN  /\ results' = d.results
                /\ records' = d.value
                /\ errors' = d.errors
                /\ position' = d.position
                /\ result' = [schema |-> {}, validations |-> {}, records |-> d.value]
                /\ pc' = "returned"
                /\ opened' = opened \cup {"@records"}
                /\ UNCHANGED sectionOrder
       ELSE IF section = "none"
       THEN LET c == checkSectionOrder("@records", sectionOrder, errors, position)
                d == parseRecords(lines, position + 1, c.errors)
            IN  /\ sectionOrder' = c.sectionOrder
                /\ results' = d.results
                /\ records' = d.value
                /\ errors' = d.errors
                /\ position' = d.position + 1
                /\ opened' = opened \cup {"@records"}
                /\ UNCHANGED <<result, pc>>
       ELSE /\ position' = position + 1
            /\ UNCHANGED <<results, records, errors, result, pc, opened, sectionOrder>>
    /\ UNCHANGED <<filePath, fileContent, section, file, lines, parsedSchema, validations,
                   fileRules, parseCalls, redocVars, requestVars>>

\* mutant of EndLine: the top marker is read but stays on the stack
EndLineKeepsStack ==
    /\ Scanning
    /\ ~StartsWithStrict(cur)
    /\ cur.text = "@end"
    /\ IF section = "none"
       THEN IF Len(sectionOrder) = 0
            THEN /\ errors' = Append(errors, Error(position + 1, "Unexpected '@end' without an open section"))
                 /\ UNCHANGED sectionOrder
            ELSE LET lastSection == sectionOrder[Len(sectionOrder)]
                 IN  /\ sectionOrder' = sectionOrder
                     /\ errors' = IF lastSection \notin {"@schema", "@validations", "@records"}
                                  THEN Append(errors, Error(position + 1, "Unexpected '@end' for section"))
                                  ELSE errors
       ELSE UNCHANGED <<errors, sectionOrder>>
    /\ position' = position + 1
    /\ UNCHANGED <<filePath, fileContent, section, file, lines, parsedSchema, validations,
                   records, fileRules, results, result, pc, parseCalls, opened, redocVars, requestVars>>

\* parseLines, one iteration: an @end line at top level
EndLine ==
    /\ Scanning
    /\ ~StartsWithStrict(cur)
    /\ cur.text = "@end"
    /\ IF section = "none"
       THEN IF Len(sectionOrder) = 0
            THEN /\ errors' = Append(errors, Error(position + 1, "Unexpected '@end' without an open section"))
                 /\ UNCHANGED sectionOrder
            ELSE LET lastSection == sectionOrder[Len(sectionOrder)]
                 IN  /\ sectionOrder' = SubSeq(sectionOrder, 1, Len(sectionOrder) - 1)
                     /\ errors' = IF lastSection \notin {"@schema", "@validations", "@records"}
                                  THEN Append(errors, Error(position + 1, "Unexpected '@end' for section"))
                                  ELSE errors
       ELSE UNCHANGED <<errors, sectionOrder>>
    /\ position' = position + 1
    /\ UNCHANGED <<filePath, fileContent, section, file, lines, parsedSchema, validations,
                   records, fileRules, results, result, pc, parseCalls, opened, redocVars, requestVars>>

\* mutant of UnknownLine: the cursor stays on a line that is reported
UnknownLineStays ==
    /\ Scanning
    /\ ~StartsWithStrict(cur)
    /\ cur.text \notin {"@schema", "@validations", "@records", "@end"}
    /\ IF section \notin {"none", "records", "schema"}
       THEN /\ pc' = "thrown"                      \* Invalid section parsing!
            /\ UNCHANGED <<errors, position>>
       ELSE /\ errors' = IF section = "none"
                         THEN Append(errors, Error(position + 1, "Unknown section or command"))
                         ELSE errors
            /\ position' = IF section = "none" THEN position ELSE position + 1
            /\ pc' = pc
    /\ UNCHANGED <<filePath, fileContent, section, file, lines, parsedSchema, validations,
                   records, sectionOrder, fileRules, results, result, parseCalls, opened,
                   redocVars, requestVars>>

\* parseLines, one iteration: any other line
UnknownLine ==
    /\ Scanning
    /\ ~StartsWithStrict(cur)
    /\ cur.text \notin {"@schema", "@validations", "@records", "@end"}
    /\ IF section \notin {"none", "records", "schema"}
       THEN /\ pc' = "thrown"                      \* Invalid section parsing!
            /\ UNCHANGED <<errors, position>>
       ELSE /\ errors' = IF section = "none"
                         THEN Append(errors, Error(position + 1, "Unknown section or command"))
                         ELSE errors
            /\ position' = position + 1
            /\ pc' = pc
    /\ UNCHANGED <<filePath, fileContent, section, file, lines, parsedSchema, validations,
                   records, sectionOrder, fileRules, results, result, parseCalls, opened,
                   redocVars, requestVars>>

\* mutant of EndOfInput: the records check runs in focus mode too
EndOfInputAlways ==
    /\ pc = "scanning"
    /\ position >= Len(lines)
    /\ errors' = errors
          \o (IF section = "none" /\ SchemaIsFalsy(parsedSchema)
              THEN <<Error(null, "Missing required section: '@schema'")>> ELSE <<>>)
          \o (IF Len(records) = 0
              THEN <<Error(null, "Missing required section: '@records'")>> ELSE <<>>)
    /\ result' = [schema |-> parsedSchema, validations |-> validations, records |-> records]
    /\ pc' = "returned"
    /\ UNCHANGED <<filePath, fileContent, section, file, lines, position, parsedSchema,
                   validations, records, sectionOrder, fileRules, results, parseCalls,
                   opened, redocVars, requestVars>>

\* parseLines after the loop: the end-of-input checks and the return
EndOfInput ==
    /\ pc = "scanning"
    /\ position >= Len(lines)
    /\ errors' = errors
          \o (IF section = "none" /\ SchemaIsFalsy(parsedSchema)
              THEN <<Error(null, "Missing required section: '@schema'")>> ELSE <<>>)
          \o (IF section = "none" /\ Len(records) = 0
              THEN <<Error(null, "Missing required section: '@records'")>> ELSE <<>>)
    /\ result' = [schema |-> parsedSchema, validations |-> validations, records |-> records]
    /\ pc' = "returned"
    /\ UNCHANGED <<filePath, fileContent, section, file, lines, position, parsedSchema,
                   validations, records, sectionOrder, fileRules, results, parseCalls,
                   opened, redocVars, requestVars>>

Next ==
    \/ parse
    \/ StrictLine
    \/ SchemaDirective
    \/ ValidationsDirective
    \/ RecordsDirective
    \/ EndLine
    \/ UnknownLine
    \/ EndOfInput

Spec == Init /\ [][Next]_vars

\* --------------------------------------------------- a second parse request
\* mutant of Constructed: the cursor survives from one instance to the next
ConstructedKeepsCursor ==
    [lines |-> <<>>, position |-> position, parsedSchema |-> {}, validations |-> {},
     records |-> <<>>, errors |-> <<>>, sectionOrder |-> <<>>,
     fileRules |-> [Strict |-> FALSE]]

\* the fields the constructor assigns
Constructed ==
    [lines |-> <<>>, position |-> 0, parsedSchema |-> {}, validations |-> {},
     records |-> <<>>, errors |-> <<>>, sectionOrder |-> <<>>,
     fileRules |-> [Strict |-> FALSE]]

\* new SQON(config) once more, with the same configuration and the same
\* unmodified input, after the first instance's parse() has returned
NewInstance ==
    /\ pc = "returned"
    /\ instance = 1
    /\ parseCalls = 1
    /\ instance' = 2
    /\ firstResult' = result
    /\ lines' = Constructed.lines
    /\ position' = Constructed.position
    /\ parsedSchema' = Constructed.parsedSchema
    /\ validations' = Constructed.validations
    /\ records' = Constructed.records
    /\ errors' = Constructed.errors
    /\ sectionOrder' = Constructed.sectionOrder
    /\ fileRules' = Constructed.fileRules
    /\ results' = NoResults
    /\ result' = EmptyResult
    /\ parseCalls' = 0
    /\ opened' = {}
    /\ pc' = "ready"
    /\ UNCHANGED <<filePath, fileContent, section, file, redocVars, firstRedoc>>

NextTwice ==
    \/ Next
    \/ NewInstance

SpecTwice == Init /\ [][NextTwice]_vars

\* one iteration of the loop of parseLines, or the code after the loop
Iteration ==
    \/ StrictLine
    \/ SchemaDirective
    \/ ValidationsDirective
    \/ RecordsDirective
    \/ EndLine
    \/ UnknownLine
    \/ EndOfInput

\* parseLines is synchronous: once entered it runs on without waiting
\* the inputs of the scans followed to their end: sections in any order
\* with lines between and after them, from inline content or from a file
InitFair ==
    /\ section \in Sections
    /\ \/ /\ filePath = NoPath
          /\ fileContent \in SectionRunTexts \cup AfterSectionTexts
          /\ file = NoText
       \/ /\ filePath = "db.sqon"
          /\ fileContent = NoText
          /\ file \in WellFormedTexts \cup {NoText}
    /\ InitFields
    /\ RedocIdle

SpecFair == InitFair /\ [][Next]_vars /\ WF_vars(Iteration)


\* ------------------------------------------------------------------ redoc()
\* line.trim().startsWith('#')
StartsWithHash(l) == Trim(l).text \in {"#", "#abc"}

\* mutant of ReplaceOrdinal: the new number is counted on from the old one
ReplaceOrdinalShifts(l, newDocNumber) ==
    IF ~l.indent /\ l.text = "#" THEN [l EXCEPT !.ord = l.ord + newDocNumber + 1] ELSE l

\* line.replace(/^#\d+/, `#${newDocNumber}`)
ReplaceOrdinal(l, newDocNumber) ==
    IF ~l.indent /\ l.text = "#" THEN [l EXCEPT !.ord = newDocNumber] ELSE l

\* mutant of RedocLine: '#' lines are renumbered outside the section too
RedocLineAnywhere(l, inRecordsSection, newDocNumber) ==
    IF Trim(l).text = "@records"
    THEN [line |-> l, inRecordsSection |-> TRUE, newDocNumber |-> newDocNumber]
    ELSE IF Trim(l).text = "@end" /\ inRecordsSection
    THEN [line |-> l, inRecordsSection |-> FALSE, newDocNumber |-> newDocNumber]
    ELSE IF StartsWithHash(l)
    THEN [line |-> ReplaceOrdinal(l, newDocNumber), inRecordsSection |-> inRecordsSection,
          newDocNumber |-> newDocNumber + 1]
    ELSE [line |-> l, inRecordsSection |-> inRecordsSection, newDocNumber |-> newDocNumber]

\* The body of redoc's loop for one line, given inRecordsSection and
\* newDocNumber: the line pushed and the two locals afterwards.
RedocLine(l, inRecordsSection, newDocNumber) ==
    IF Trim(l).text = "@records"
    THEN [line |-> l, inRecordsSection |-> TRUE, newDocNumber |-> newDocNumber]
    ELSE IF Trim(l).text = "@end" /\ inRecordsSection
    THEN [line |-> l, inRecordsSection |-> FALSE, newDocNumber |-> newDocNumber]
    ELSE IF inRecordsSection /\ StartsWithHash(l)
    THEN [line |-> ReplaceOrdinal(l, newDocNumber), inRecordsSection |-> inRecordsSection,
          newDocNumber |-> newDocNumber + 1]
    ELSE [line |-> l, inRecordsSection |-> inRecordsSection, newDocNumber |-> newDocNumber]

\* updatedLines for the lines from the i-th on
RECURSIVE RedocFrom(_, _, _, _)
RedocFrom(t, i, inRecordsSection, newDocNumber) ==
    IF i > Len(t) THEN <<>>
    ELSE LET r == RedocLine(t[i], inRecordsSection, newDocNumber)
         IN  <<r.line>> \o RedocFrom(t, i + 1, r.inRecordsSection, r.newDocNumber)

\* updatedContent: split('\n'), the loop, join('\n')
UpdatedContent(t) == RedocFrom(t, 1, FALSE, 0)

\* `content ?? ...`: content is neither undefined nor null
IsGiven(content) == content # NoText

\* `if (content)`: the returned-text branch is taken
ReturnsText(content) == TruthyText(content)

\* redoc(content), the whole call
redoc ==
    /\ redocPc = "called"
    /\ pc = "ready"
    /\ IF ~IsGiven(redocArg) /\ (filePath = NoPath \/ file = NoText)
       THEN /\ fileReads' = fileReads + 1          \* readFile rejects
            /\ redocPc' = "thrown"
            /\ UNCHANGED <<file, redocRet, fileWrites>>
       ELSE LET source == IF IsGiven(redocArg) THEN redocArg ELSE file
                updatedContent == UpdatedContent(source)
            IN  /\ fileReads' = IF IsGiven(redocArg) THEN fileReads ELSE fileReads + 1
                /\ IF ReturnsText(redocArg)
                   THEN /\ redocRet' = updatedContent
                        /\ redocPc' = "done"
                        /\ UNCHANGED <<file, fileWrites>>
                   ELSE /\ fileWrites' = fileWrites + 1
                        /\ redocRet' = NoText
                        /\ IF filePath = NoPath
                           THEN /\ redocPc' = "thrown"   \* writeFile rejects
                                /\ file' = file
                           ELSE /\ redocPc' = "done"
                                /\ file' = updatedContent
    /\ UNCHANGED <<filePath, fileContent, section, parseVars, redocArg, requestVars>>

RedocAlphabet ==
    {Line("@records"), Line("@end"), Indented(Line("@end")), Line("entry"), Line("#abc"),
     Indented(Marker(MaxOrd))} \cup {Marker(n) : n \in 0..MaxOrd}

RedocTexts == UNION {[1..n -> RedocAlphabet] : n \in 1..MaxRedocLen}

\* a records section of three documents between other lines
SectionTexts ==
    {<<Line("#abc"), Marker(MaxOrd), Indented(Line("@records"))>> \o ms
        \o <<Line("@end"), Marker(MaxOrd)>> :
        ms \in [1..3 -> {Marker(n) : n \in 0..MaxOrd}]}

StoredFile == <<Line("@records"), Marker(MaxOrd), Line("@end")>>

\* an instance and a pending redoc(content) call
InitRedoc ==
    /\ section = "none"
    /\ \/ /\ redocArg \in RedocTexts \cup SectionTexts \cup {EmptyString}   \* inline text
          /\ \/ filePath = "db.sqon" /\ fileContent = NoText /\ file \in {StoredFile, NoText}
             \/ filePath = NoPath /\ fileContent = StoredFile /\ file = NoText
       \/ /\ redocArg = NoText                                             \* no argument
          /\ \/ /\ filePath = "db.sqon" /\ fileContent = NoText
                /\ file \in RedocTexts \cup SectionTexts \cup {EmptyString, NoText}
             \/ filePath = NoPath /\ fileContent = StoredFile /\ file = NoText
    /\ InitFields
    /\ redocPc = "called"
    /\ redocRet = NoText
    /\ fileReads = 0
    /\ fileWrites = 0

NextRedoc == redoc

SpecRedoc == InitRedoc /\ [][NextRedoc]_vars

\* the caller passes the text redoc(content) returned to redoc once more
redocAgain ==
    /\ redocPc = "done"
    /\ redocRet # NoText
    /\ firstRedoc.ret = NoText
    /\ firstRedoc' = [arg |-> redocArg, ret |-> redocRet]
    /\ redocArg' = redocRet
    /\ redocPc' = "called"
    /\ redocRet' = NoText
    /\ UNCHANGED <<filePath, fileContent, section, file, parseVars, fileReads, fileWrites,
                   instance, firstResult>>

NextRedocTwice ==
    \/ redoc
    \/ redocAgain

SpecRedocTwice == InitRedoc /\ [][NextRedocTwice]_vars


\* ------------------------------------------------------------------ claims
\* The text a parse() call reads.
Source == IF TruthyText(fileContent) THEN fileContent ELSE file

HasMessage(errs, msg) == \E i \in 1..Len(errs) : errs[i].message = msg
Added(old, new) == SubSeq(new, Len(old) + 1, Len(new))
Extends(old, new) == Len(new) >= Len(old) /\ SubSeq(new, 1, Len(old)) = old

\* C1: for every well-formed input (optional *STRICT line, then
\* @schema...@end, @validations...@end, @records...@end with at least one
\* record, no sub-parser error), a non-focused parse returns an empty
\* errors list.
C1_WellFormedNoErrors ==
    (/\ pc = "returned"
     /\ section = "none"
     /\ parseCalls = 1
     /\ Source \in WellFormedTexts
     /\ \A i \in 1..Len(errors) : errors[i].message \notin SubParserMessages)
    => Returned.errors = <<>>

\* C2: in non-focused mode, when @validations is opened and no @schema has
\* been opened before it, exactly one ordering error is appended, carrying
\* the directive's line (followed by the already-opened error when
\* @validations is on the stack, then the validation parser's errors), the
\* section is pushed, the validation parser is delegated to from the next
\* line, and the scan continues.
C2_ValidationsBeforeSchema ==
    [][(/\ Scanning
        /\ section = "none"
        /\ cur.text = "@validations"
        /\ "@schema" \notin opened)
       => /\ Extends(errors, errors')
          /\ Added(errors, errors') =
                <<Error(position + 1, "must come after '@schema'")>>
                \o (IF Includes(sectionOrder, "@validations")
                    THEN <<Error(position + 1, "is already opened but not closed")>>
                    ELSE <<>>)
                \o SubSeq(results'.errors, 1, Min(Len(results'.errors), MAX_ERRORS))
          /\ Cardinality({i \in 1..Len(errors') :
                            /\ i > Len(errors)
                            /\ errors'[i].message = "must come after '@schema'"}) = 1
          /\ sectionOrder' = Append(sectionOrder, "@validations")
          /\ results' = SQONValidation(lines, position + 1, parsedSchema)
          /\ validations' = results'.validations
          /\ pc' = "scanning"
          /\ position' > position]_vars

C2_Witness ==
    /\ pc = "scanning"
    /\ section = "none"
    /\ results.parser = "validations"
    /\ "@schema" \notin opened
    /\ sectionOrder = <<"@validations">>
    /\ Len(errors) = 2
    /\ errors[1] = Error(1, "must come after '@schema'")
    /\ errors[2] = Error(2, "validations: invalid rule")
    /\ position < Len(lines)

\* C3: a *STRICT= line whose value is neither TRUE nor FALSE appends exactly
\* one error, leaves fileRules.Strict at the value it had (false after
\* construction), and advances the cursor by exactly one line.
C3_InvalidStrict ==
    /\ fileRules.Strict = FALSE
    /\ [][(/\ Scanning
           /\ StartsWithStrict(cur)
           /\ StrictValue(cur) \notin {"TRUE", "FALSE"})
          => /\ errors' = Append(errors, Error(position + 1, "Invalid *STRICT value"))
             /\ fileRules' = fileRules
             /\ position' = position + 1
             /\ pc' = "scanning"]_vars

C3_Witness ==
    /\ pc = "scanning"
    /\ fileRules.Strict = TRUE
    /\ position = 2
    /\ lines[2].text = "*STRICT=MAYBE"
    /\ errors = <<Error(2, "Invalid *STRICT value")>>

\* C4: once a section has been opened earlier in the scan, a later top-level
\* *STRICT= line does not change fileRules.Strict.
C4_StrictOnlyBeforeSections ==
    [][(Scanning /\ StartsWithStrict(cur) /\ opened # {})
       => fileRules' = fileRules]_vars

Untouched ==
    /\ lines = <<>> /\ position = 0 /\ parsedSchema = {} /\ validations = {}
    /\ records = <<>> /\ errors = <<>> /\ sectionOrder = <<>>
    /\ fileRules = [Strict |-> FALSE] /\ parseCalls = 0

\* C5 as stated: construction succeeds only when exactly one of filePath and
\* fileContent is supplied.
C5_ExactlyOne ==
    (pc # "ctorFailed") => (TruthyPath(filePath) # TruthyText(fileContent))

\* C5 as amended: construction fails exactly when neither filePath nor
\* fileContent is supplied as a non-empty string, and then no parsing state
\* is ever touched; with both supplied it succeeds.
C5_AtLeastOne ==
    /\ (pc = "ctorFailed") <=> (~TruthyPath(filePath) /\ ~TruthyText(fileContent))
    /\ (pc = "ctorFailed") => Untouched

C5_Witness ==
    /\ TruthyPath(filePath)
    /\ TruthyText(fileContent)
    /\ pc = "returned"
    /\ lines = TrimFilter(fileContent)

\* The text redoc() produced: the text returned, or else the text written.
RedocOutput == IF redocRet # NoText THEN redocRet ELSE file

\* Line i of text t lies inside an @records...@end section.
InRecords(t, i) ==
    \E j \in 1..(i - 1) :
        /\ Trim(t[j]).text = "@records"
        /\ \A k \in (j + 1)..(i - 1) : Trim(t[k]).text # "@end"

\* The indices of the record lines (#<digits>, indented or not) inside
\* @records...@end, in encounter order.
MarkerIndices(t) ==
    SelectSeq([i \in 1..Len(t) |-> i], LAMBDA i : t[i].text = "#" /\ InRecords(t, i))

\* C6: redoc rewrites every ordinal marker inside @records...@end, indented
\* or not, so that the k-th marker in encounter order becomes #k (#0, #1, ...).
C6_SequentialOrdinals ==
    redocPc = "done"
    => LET out == RedocOutput
           ms == MarkerIndices(out)
       IN  \A k \in 1..Len(ms) : out[ms[k]].ord = k - 1

\* C7: redoc preserves the number and order of lines, leaves every line
\* outside an @records...@end section unchanged, and changes nothing but the
\* ordinal of a record line inside one.
C7_Frame ==
    [][(redocPc = "called" /\ redocPc' = "done")
       => LET src == IF IsGiven(redocArg) THEN redocArg ELSE file
              out == IF redocRet' # NoText THEN redocRet' ELSE file'
          IN  /\ Len(out) = Len(src)
              /\ \A i \in 1..Len(src) :
                    /\ out[i].indent = src[i].indent
                    /\ out[i].text = src[i].text
                    /\ (~InRecords(src, i) \/ src[i].text # "#") => out[i] = src[i]]_vars

C7_Witness ==
    /\ redocPc = "done"
    /\ redocRet # NoText
    /\ redocRet # redocArg
    /\ \E i \in 1..Len(redocArg) :
          /\ ~InRecords(redocArg, i)
          /\ redocArg[i] = Marker(MaxOrd)
          /\ redocRet[i] = Marker(MaxOrd)

\* C8: given inline text (any string, the empty string included) redoc
\* returns the updated text and never reads or writes the file; only with no
\* inline text does it read the file and write the rewrite back.
C8_InlineNeverTouchesFile ==
    redocPc \in {"done", "thrown"}
    => IF IsGiven(redocArg)
       THEN /\ redocPc = "done"
            /\ redocRet # NoText
            /\ fileReads = 0
            /\ fileWrites = 0
       ELSE /\ fileReads = 1
            /\ redocPc = "done" => (fileWrites = 1 /\ redocRet = NoText)

\* The number of record lines of a text.
RecordEntries(t) == Len(SelectSeq(t, LAMBDA l : l.text = "#"))

Delegating ==
    /\ Scanning
    /\ ~StartsWithStrict(cur)
    /\ \/ cur.text = "@schema" /\ section \in {"schema", "none"}
       \/ cur.text = "@validations" /\ section \in {"schema", "none"}
       \/ cur.text = "@records" /\ section \in {"records", "none"}

\* C10: each delegation to a section sub-parser appends at most 50 of the
\* sub-parser's errors to the global list: the first 50 it returned, in
\* their order, after the ordering errors of the directive, none beyond.
C10_ErrorCap ==
    [][Delegating
       => LET got == results'.errors
              a == IF Len(got) < MAX_ERRORS THEN Len(got) ELSE MAX_ERRORS
              new == Added(errors, errors')
          IN  /\ Extends(errors, errors')
              /\ Len(new) >= a
              /\ SubSeq(new, Len(new) - a + 1, Len(new)) = [i \in 1..a |-> got[i]]
              /\ \A i \in 1..(Len(new) - a) : new[i].message \notin SubParserMessages
              /\ Cardinality({i \in 1..Len(new) : new[i].message \in SubParserMessages})
                    <= MAX_ERRORS]_vars

C10_Witness ==
    /\ pc = "scanning"
    /\ section = "none"
    /\ results.parser = "validations"
    /\ Len(results.errors) = MAX_ERRORS + 1
    /\ Len(errors) = MAX_ERRORS + 1
    /\ errors[1].message = "must come after '@schema'"
    /\ errors[Len(errors)] = results.errors[MAX_ERRORS]


FatalStrict ==
    /\ position < Len(lines)
    /\ StartsWithStrict(cur)
    /\ StrictValue(cur) = "TRUE"
    /\ section # "none"

FatalFocus ==
    /\ position < Len(lines)
    /\ ~StartsWithStrict(cur)
    /\ cur.text \notin {"@schema", "@validations", "@records", "@end"}
    /\ section \notin {"none", "schema", "records"}

FatalFile ==
    /\ ~TruthyText(fileContent)
    /\ TruthyPath(filePath)
    /\ file = NoText

C14_ResumesAtReturnedCursor ==
    [][(Delegating /\ section = "none") => position' = results'.position]_vars


\* the top-level loop is at an @end line outside focus mode
TopLevelEnd ==
    /\ Scanning
    /\ ~StartsWithStrict(cur)
    /\ cur.text = "@end"
    /\ section = "none"

\* C15: in non-focused mode a top-level @end line with a non-empty
\* section-order stack removes exactly the top marker and appends no error;
\* with an empty stack it appends exactly one "unexpected @end" error and
\* leaves the stack empty; schema, validations, records and fileRules are
\* unchanged in both cases.
C15_TopLevelEnd ==
    [][TopLevelEnd
       => /\ IF Len(sectionOrder) > 0
             THEN /\ sectionOrder' = SubSeq(sectionOrder, 1, Len(sectionOrder) - 1)
                  /\ errors' = errors
             ELSE /\ sectionOrder' = <<>>
                  /\ errors' = Append(errors,
                        Error(position + 1, "Unexpected '@end' without an open section"))
          /\ UNCHANGED <<parsedSchema, validations, records, fileRules>>
          /\ pc' = "scanning"]_vars

C15_Witness ==
    /\ pc = "scanning"
    /\ section = "none"
    /\ position > 0
    /\ position <= Len(lines)
    /\ lines[position].text = "@end"
    /\ Cardinality(opened) = 2
    /\ Len(sectionOrder) = 1
    /\ ~HasMessage(errors, "Unexpected '@end' without an open section")
    /\ Source \in SectionRunTexts


\* the errors a non-focused directive step adds on top of the sub-parser's
OrderingErrors(old, new, res) ==
    SubSeq(new, Len(old) + 1, Len(new) - Len(SliceErrors(res.errors)))

\* C16: in non-focused mode, whenever @schema, @validations or @records is
\* opened and the same section was already opened earlier in the scan,
\* whether or not an @end was seen in between, an error is appended.
C16_ReopeningIsAnError ==
    [][(/\ Delegating
        /\ section = "none"
        /\ parseCalls = 1
        /\ cur.text \in opened)
       => OrderingErrors(errors, errors', results') # <<>>]_vars


\* C17: in non-focused mode, opening @validations after @records has
\* already been opened appends an ordering error.
C17_ValidationsAfterRecords ==
    [][(/\ Delegating
        /\ section = "none"
        /\ parseCalls = 1
        /\ cur.text = "@validations"
        /\ "@records" \in opened)
       => OrderingErrors(errors, errors', results') # <<>>]_vars


\* the 1-based number, in the input text t, of the line that became the
\* k-th line of the buffer
RECURSIVE OrigIndexFrom(_, _, _)
OrigIndexFrom(t, k, i) ==
    IF i > Len(t) THEN null
    ELSE IF t[i].text = "" THEN OrigIndexFrom(t, k, i + 1)
    ELSE IF k = 1 THEN i
    ELSE OrigIndexFrom(t, k - 1, i + 1)

OrigIndex(t, k) == OrigIndexFrom(t, k, 1)

\* the positional errors the Orchestrator itself appends in a step
OwnErrors ==
    IF Delegating THEN OrderingErrors(errors, errors', results') ELSE Added(errors, errors')

\* C18: every positional error appended by the Orchestrator (invalid *STRICT
\* value, ordering violation, unexpected @end, unknown command) carries the
\* 1-based line number of the offending line in the original input,
\* including when blank lines precede it.
C18_OriginalLineNumbers ==
    [][(Scanning /\ parseCalls = 1)
       => \A i \in 1..Len(OwnErrors) :
             OwnErrors[i].line = OrigIndex(Source, position + 1)]_vars


MissingRecords == Error(null, "Missing required section: '@records'")
MissingSchema == Error(null, "Missing required section: '@schema'")

\* how many times the error e occurs in errs
Count(errs, e) == Cardinality({i \in 1..Len(errs) : errs[i] = e})

\* C19: when a non-focused scan reaches end of input with an empty record
\* list, exactly one line = null error "Missing required section:
\* '@records'" is appended; none is appended when the record list is
\* non-empty, and never in focus mode.
C19_MissingRecords ==
    /\ [][(pc = "scanning" /\ position >= Len(lines))
          => /\ pc' = "returned"
             /\ Extends(errors, errors')
             /\ Count(Added(errors, errors'), MissingRecords)
                  = (IF section = "none" /\ records = <<>> THEN 1 ELSE 0)]_vars
    /\ [][(pc = "scanning" /\ position < Len(lines))
          => Count(errors', MissingRecords) = Count(errors, MissingRecords)]_vars
    /\ [](section # "none" => Count(errors, MissingRecords) = 0)

C19_Witness ==
    /\ pc = "returned"
    /\ section = "none"
    /\ parseCalls = 1
    /\ records = <<>>
    /\ parsedSchema # {}
    /\ Len(errors) > 1
    /\ errors[Len(errors)] = MissingRecords
    /\ Count(errors, MissingRecords) = 1


\* C20: when a non-focused scan reaches end of input and the schema has
\* zero fields, a line = null error "Missing required section: '@schema'"
\* is appended.
C20_MissingSchema ==
    (/\ pc = "returned"
     /\ section = "none"
     /\ parseCalls = 1
     /\ Returned.schema = {})
    => Count(Returned.errors, MissingSchema) > 0


\* C21: redoc is idempotent on inline text: for every non-empty text t,
\* redoc(redoc(t)) equals redoc(t).
C21_RedocIdempotent ==
    (redocPc # "called" /\ firstRedoc.ret # NoText)
    => (redocPc = "done" /\ redocRet = firstRedoc.ret)

C21_Witness ==
    /\ redocPc = "done"
    /\ firstRedoc.ret # NoText
    /\ firstRedoc.ret # firstRedoc.arg
    /\ redocArg = firstRedoc.ret
    /\ redocRet = firstRedoc.ret
    /\ \E i \in 1..Len(redocRet) : redocRet[i].indent /\ redocRet[i].text = "#"
    /\ \E i \in 1..Len(redocRet) : redocRet[i].text = "#abc" /\ InRecords(redocRet, i)


\* C22: the top-level scan always terminates: the cursor strictly increases
\* on every iteration of the top-level loop, so the loop ends after at most
\* as many iterations as there are lines.
C22_ScanTerminates ==
    /\ [][Scanning
          => \/ pc' \in {"returned", "thrown"}
             \/ /\ pc' = "scanning"
                /\ position' > position
                /\ Len(lines') - position' < Len(lines) - position]_vars
    /\ [][(pc = "scanning" /\ ~Scanning) => pc' = "returned"]_vars
    /\ [](pc = "scanning" => <>(pc \in {"returned", "thrown"}))

C22_Witness ==
    /\ pc = "returned"
    /\ section = "none"
    /\ parseCalls = 1
    /\ Cardinality(opened) = 3
    /\ position >= Len(lines)
    /\ Len(lines) > MaxLen


\* C23: a second parse() on the same instance does not start from a clean
\* state: cursor, errors and sectionOrder are not reset, so the errors of
\* the second result have the errors of the first as a prefix, and the
\* second call can append further errors for the same input.
C23_SecondParseNotClean ==
    /\ [][(parseCalls >= 1 /\ parseCalls' = parseCalls + 1)
          => UNCHANGED <<position, errors, sectionOrder>>]_vars
    /\ [][(parseCalls >= 1 /\ parseCalls' >= parseCalls)
          => Extends(errors, errors')]_vars

C23_Witness ==
    /\ pc = "returned"
    /\ parseCalls = 2
    /\ section = "none"
    /\ position > 0
    /\ Len(sectionOrder) > 0
    /\ Count(Returned.errors, MissingRecords) = 2
    /\ errors[Len(errors)] = MissingRecords
    /\ \E i \in 1..(Len(errors) - 1) :
          /\ errors[i] = MissingRecords
          /\ \A k \in 1..(i - 1) : errors[k].line # null

====
